---- MODULE Spec2Model ----
(***************************************************************************)
(* Model of mtuq's CAP-style misfit function (mtuq/misfit/cap.py) and of   *)
(* the fast cross-correlation utility (mtuq/util/math.py).                 *)
(*                                                                         *)
(* Samples are integers.  Times are integers counted in ticks (one tick is *)
(* the time unit; with a tick of 0.1 s, dt = 1 is the 0.1 s of the spec's  *)
(* examples).  The real number x^(1/p) returned by Misfit.__call__ is      *)
(* represented by the pair [radicand |-> x, index |-> p]: the p-th root is *)
(* injective on the nonnegative reals, so two returned values are equal    *)
(* exactly when their pairs are.                                           *)
(*                                                                         *)
(* A Python attribute that may be missing (hasattr) is the empty sequence  *)
(* when missing and the one-element sequence <<v>> when it holds v.        *)
(***************************************************************************)
EXTENDS Integers, Sequences, FiniteSets, TLC

VARIABLES
    data,        \* the observed data: one station (stream of traces) per entry
    greens,      \* the Green's functions get_synthetics draws synthetics from
    misfit,      \* the Misfit object last constructed (<< >> before any)
    mt,          \* the mechanism of the latest call of the current Misfit
    synthetics,  \* the synthetics of the latest call, as the call left them
    log,         \* per station and group of the latest call: the locals
    outcome,     \* how the latest call ended, and what it returned
    corr         \* the arguments of correlate, and its result once it ran

vars == <<data, greens, misfit, mt, synthetics, log, outcome, corr>>

----------------------------------------------------------------------------
(* Optional attributes *)

NoAttr == << >>

Attr(v) == <<v>>

HasAttr(x) == x # << >>

Val(x) == x[1]

----------------------------------------------------------------------------
(* Arithmetic on sample arrays *)

\* the function f on 1..n as a sequence held entry by entry
Array(f) == f \o << >>

RECURSIVE SumRange(_, _, _)
SumRange(f, lo, hi) ==
    IF lo > hi THEN 0
    ELSE IF lo = hi THEN f[lo]
    ELSE LET mid == (lo + hi) \div 2
         IN  SumRange(f, lo, mid) + SumRange(f, mid + 1, hi)

Abs(x) == IF x < 0 THEN -x ELSE x

RECURSIVE Pow(_, _)
Pow(x, n) == IF n = 0 THEN 1 ELSE x * Pow(x, n - 1)

zeros(n) == Array([k \in 1..n |-> 0])

Reverse(x) == LET n == Len(x) IN Array([k \in 1..n |-> x[n + 1 - k]])

AddArrays(x, y) == Array([k \in 1..Len(x) |-> x[k] + y[k]])

\* (mutant) all of the 2n zeros put after x
padAfter(x, n) ==
    LET len == Len(x)
    IN  Array([k \in 1..(len + 2 * n) |-> IF k > len THEN 0 ELSE x[k]])

\* np.pad(x, n, 'constant'): n zeros before and after x
pad(x, n) ==
    LET len == Len(x)
    IN  Array([k \in 1..(len + 2 * n) |->
                  IF k <= n \/ k > n + len THEN 0 ELSE x[k - n]])

\* x[start:stop] for 0 <= start <= stop <= len(x) (0-based, stop excluded)
Slice(x, start, stop) == Array([k \in 1..(stop - start) |-> x[start + k]])

\* int(round(num/den)) for num >= 0, den > 0: Python 3 rounds a half to even
Round(num, den) ==
    LET q == num \div den
        r == num % den
    IN  IF 2 * r < den THEN q
        ELSE IF 2 * r > den THEN q + 1
        ELSE IF q % 2 = 0 THEN q ELSE q + 1

\* the sliding dot products of the shorter array `small` along `big`:
\* c[k] = sum_n big[n+k] * small[n], k = 0 .. len(big)-len(small)
SlidingDot(big, small) ==
    LET len == Len(small)
    IN  Array([k \in 1..(Len(big) - len + 1) |->
                  SumRange([n \in 1..len |-> big[n + k - 1] * small[n]],
                           1, len)])

\* (mutant) the arguments swapped and the result left as it comes
np_correlate_unreversed(a, v) ==
    IF Len(a) < Len(v) THEN SlidingDot(v, a) ELSE SlidingDot(a, v)

\* np.correlate(a, v, 'valid'): numpy swaps the arguments when a is the
\* shorter one and then reverses the result
np_correlate(a, v) ==
    IF Len(a) < Len(v) THEN Reverse(SlidingDot(v, a)) ELSE SlidingDot(a, v)

\* scipy.signal.fftconvolve(in1, in2, 'valid'): the entries of the full
\* convolution full[m] = sum_i in1[i] * in2[m-i] that need no zero padding,
\* m = min(n1,n2)-1 .. max(n1,n2)-1
fftconvolve(in1, in2) ==
    LET n1 == Len(in1)
        n2 == Len(in2)
        lo == IF n1 < n2 THEN n1 ELSE n2
        hi == IF n1 < n2 THEN n2 ELSE n1
    IN  Array([k \in 1..(hi - lo + 1) |->
                  SumRange([i \in 1..n1 |->
                              LET j == k + lo - i
                              IN  IF j >= 1 /\ j <= n2 THEN in1[i] * in2[j] ELSE 0],
                           1, n1)])

\* (mutant) the last occurrence of the maximum
RECURSIVE ArgMaxInLast(_, _, _)
ArgMaxInLast(x, lo, hi) ==
    IF lo = hi THEN lo
    ELSE LET mid == (lo + hi) \div 2
             left == ArgMaxInLast(x, lo, mid)
             right == ArgMaxInLast(x, mid + 1, hi)
         IN  IF x[right] >= x[left] THEN right ELSE left

\* numpy's argmax: the 0-based index of the first occurrence of the maximum.
\* ArgMaxIn is the 1-based index for the entries lo..hi: a later entry wins
\* only when it is strictly greater than every earlier one
RECURSIVE ArgMaxIn(_, _, _)
ArgMaxIn(x, lo, hi) ==
    IF lo = hi THEN lo
    ELSE LET mid == (lo + hi) \div 2
             left == ArgMaxIn(x, lo, mid)
             right == ArgMaxIn(x, mid + 1, hi)
         IN  IF x[right] > x[left] THEN right ELSE left

argmax(x) == ArgMaxIn(x, 1, Len(x)) - 1

----------------------------------------------------------------------------
(* mtuq/util/math.py *)

CorrLongTrace == 2000

CorrLongLag == 200

correlate(v1, v2) ==
    LET n1 == Len(v1)
        n2 == Len(v2)
    IN  IF n1 > CorrLongTrace \/ n2 - n1 > CorrLongLag
        THEN fftconvolve(v1, Reverse(v2))
        ELSE np_correlate(v1, v2)

----------------------------------------------------------------------------
(* mtuq/misfit/cap.py: class Misfit *)

Components == {"Z", "R", "T"}

\* str.upper() on the channel letters in use
upper(c) ==
    CASE c = "z" -> "Z"
      [] c = "r" -> "R"
      [] c = "t" -> "T"
      [] OTHER -> c

\* x in group, for a group given as the sequence of its characters
In(x, group) == \E k \in 1..Len(group) : group[k] = x

\* Misfit.__init__: the assertion on the groups
ValidGroups(time_shift_groups) ==
    \A g \in 1..Len(time_shift_groups) :
        \A k \in 1..Len(time_shift_groups[g]) :
            time_shift_groups[g][k] \in Components

\* Misfit.__init__: the object it builds
NewMisfit(norm_order, polarity_weight, time_shift_groups, time_shift_max) ==
    [order |-> norm_order,
     time_shift_max |-> time_shift_max,
     time_shift_groups |-> time_shift_groups,
     polarity_weight |-> polarity_weight]

ModeLongTrace == 2000

ModeLongLag == 200

\* (mutant) the frequency domain from ModeLongTrace samples on
ChooseModeInclusive(npts, npts_padding) ==
    IF npts_padding = 0 THEN 0
    ELSE IF npts >= ModeLongTrace \/ npts_padding > ModeLongLag THEN 1
    ELSE 2

\* the mode chosen for a station that has none yet
ChooseMode(npts, npts_padding) ==
    IF npts_padding = 0 THEN 0
    ELSE IF npts > ModeLongTrace \/ npts_padding > ModeLongLag THEN 1
    ELSE 2

\* (mutant) the mode chosen anew by every call
SetModeAlways(d, npts, npts_padding) ==
    [d EXCEPT !.time_shift_mode = Attr(ChooseMode(npts, npts_padding))]

\* the `if not hasattr(d, 'time_shift_mode')` block
SetMode(d, npts, npts_padding) ==
    IF ~HasAttr(d.time_shift_mode)
    THEN [d EXCEPT !.time_shift_mode = Attr(ChooseMode(npts, npts_padding))]
    ELSE d

\* (mutant) no trace is skipped for its weight
ZeroWeightKept(trace) == FALSE

\* the first loop over the traces of d: is trace _i skipped for its weight?
ZeroWeight(trace) == trace.weight = 0

component(trace) == upper(trace.channel[Len(trace.channel)])

\* _indices once the first loop over the traces is done
RECURSIVE Indices(_, _, _)
Indices(d, group, _i) ==
    IF _i > Len(d.traces) THEN << >>
    ELSE IF ZeroWeight(d.traces[_i]) THEN Indices(d, group, _i + 1)
    ELSE IF In(component(d.traces[_i]), group)
         THEN <<_i>> \o Indices(d, group, _i + 1)
         ELSE Indices(d, group, _i + 1)

\* what one trace adds to result, by mode
Contribution(mode, dat, syn, npts_padding) ==
    IF mode = 0 THEN zeros(2 * npts_padding + 1)
    ELSE IF mode = 1 THEN fftconvolve(dat, Reverse(syn))
    ELSE np_correlate(dat, syn)

\* result once the first loop over the traces is done
RECURSIVE Accumulate(_, _, _, _, _)
Accumulate(d, s, _indices, npts_padding, n) ==
    IF n = 0 THEN zeros(2 * npts_padding + 1)
    ELSE AddArrays(Accumulate(d, s, _indices, npts_padding, n - 1),
                   Contribution(Val(d.time_shift_mode),
                                d.traces[_indices[n]].data,
                                s[_indices[n]].data, npts_padding))

\* (mutant) the sum not multiplied by dt
SumResidualsPlain(dat, syn, start, stop, p, dt) ==
    LET cut == Slice(syn, start, stop)
    IN  SumRange([k \in 1..Len(dat) |-> Pow(Abs(cut[k] - dat[k]), p)],
                 1, Len(dat))

\* np.sum(np.abs(r)**p)*dt for r = syn[start:stop] - dat
SumResiduals(dat, syn, start, stop, p, dt) ==
    LET cut == Slice(syn, start, stop)
    IN  SumRange([k \in 1..Len(dat) |-> Pow(Abs(cut[k] - dat[k]), p)],
                 1, Len(dat)) * dt

\* the second loop (for _i in _indices) of one group, from its n-th entry on;
\* acc holds d, s and sum_misfit
RECURSIVE Annotate(_, _, _, _, _, _)
Annotate(acc, lg, group, p, dt, n) ==
    IF n > Len(lg._indices) THEN acc
    ELSE
      LET _i == lg._indices[n]
          sr == SumResiduals(acc.d.traces[_i].data, acc.s[_i].data,
                             lg.start, lg.stop, p, dt)
          s2 == [acc.s EXCEPT ![_i] =
                    [@ EXCEPT !.time_shift = Attr(lg.time_shift),
                              !.time_shift_group = Attr(group),
                              !.start = Attr(lg.start),
                              !.stop = Attr(lg.stop)]]
          d2 == [acc.d EXCEPT !.traces[_i].sum_residuals = Attr(sr)]
      IN  Annotate([d |-> d2, s |-> s2,
                    sum_misfit |-> acc.sum_misfit
                                   + acc.d.traces[_i].weight * sr],
                   lg, group, p, dt, n + 1)

\* (mutant) the lag counted from the first index, not from the middle
GroupLocalsUncentred(d, s, group, npts, npts_padding, dt) ==
    LET _indices == Indices(d, group, 1)
        result == Accumulate(d, s, _indices, npts_padding, Len(_indices))
        am == argmax(result)
    IN  [group |-> group,
         _indices |-> _indices,
         result |-> result,
         argmax |-> am,
         time_shift |-> am * dt,
         start |-> 2 * npts_padding - am,
         stop |-> 2 * npts_padding - am + npts]

\* the locals of one pass of the loop over the groups
GroupLocals(d, s, group, npts, npts_padding, dt) ==
    LET _indices == Indices(d, group, 1)
        result == Accumulate(d, s, _indices, npts_padding, Len(_indices))
        am == argmax(result)
    IN  [group |-> group,
         _indices |-> _indices,
         result |-> result,
         argmax |-> am,
         time_shift |-> (am - npts_padding) * dt,
         start |-> 2 * npts_padding - am,
         stop |-> 2 * npts_padding - am + npts]

\* PART 2 for one station, from group g on; acc also holds the locals
RECURSIVE Groups(_, _, _, _, _, _)
Groups(acc, self, npts, npts_padding, dt, g) ==
    IF g > Len(self.time_shift_groups) THEN acc
    ELSE
      LET group == self.time_shift_groups[g]
          lg == GroupLocals(acc.d, acc.s, group, npts, npts_padding, dt)
          done == Annotate([d |-> acc.d, s |-> acc.s,
                            sum_misfit |-> acc.sum_misfit],
                           lg, group, self.order, dt, 1)
      IN  Groups([d |-> done.d, s |-> done.s,
                  sum_misfit |-> done.sum_misfit,
                  groups |-> Append(acc.groups, lg)],
                 self, npts, npts_padding, dt, g + 1)

\* (mutant) the padding counted on one side only
PrepaddedOneSide(npts_dat, npts_syn, npts_padding) ==
    npts_syn - npts_dat = npts_padding

\* PART 1: the three cases of the lengths
Prepadded(npts_dat, npts_syn, npts_padding) ==
    npts_syn - npts_dat = 2 * npts_padding

SameLength(npts_dat, npts_syn) == npts_dat = npts_syn

\* each trace of s padded by npts_padding on both sides
PadTraces(s, npts_padding) ==
    [k \in 1..Len(s) |-> [s[k] EXCEPT !.data = pad(@, npts_padding)]]

\* (mutant) the polarity term asked for only by weights above one
PolarityAboveOne(self) == self.polarity_weight > 1

\* PART 3: is the polarity term asked for?
PolarityRequested(self) == self.polarity_weight > 0

\* the loop over the stations, from station n on.  st holds data, synthetics,
\* sum_misfit, the locals logged so far, and what was raised (and where)
RECURSIVE Stations(_, _, _)
Stations(st, self, n) ==
    IF n > Len(st.data) \/ st.raised # "" THEN st
    ELSE
      LET d == st.data[n]
          s == st.synthetics[n]
          npts == Len(d.traces[1].data)
          dt == d.traces[1].delta
          npts_syn == Len(s[1].data)
          npts_padding == Round(self.time_shift_max, dt)
      IN
      IF ~Prepadded(npts, npts_syn, npts_padding) /\ ~SameLength(npts, npts_syn)
      THEN [st EXCEPT !.raised = "Exception", !.station = n]
      ELSE
        LET padded == ~Prepadded(npts, npts_syn, npts_padding)
            s1 == IF padded THEN PadTraces(s, npts_padding) ELSE s
            d1 == SetMode(d, npts, npts_padding)
            acc == Groups([d |-> d1, s |-> s1, sum_misfit |-> st.sum_misfit,
                           groups |-> << >>],
                          self, npts, npts_padding, dt, 1)
            st1 == [st EXCEPT
                      !.data[n] = acc.d,
                      !.synthetics[n] = acc.s,
                      !.sum_misfit = acc.sum_misfit,
                      !.log = Append(@, [npts |-> npts,
                                         npts_padding |-> npts_padding,
                                         padded |-> padded,
                                         mode |-> Val(d1.time_shift_mode),
                                         groups |-> acc.groups])]
        IN  IF PolarityRequested(self)
            THEN [st1 EXCEPT !.raised = "NotImplementedError", !.station = n]
            ELSE Stations(st1, self, n + 1)

\* Misfit.__call__ up to its return statement
RunCall(self, dat, syn) ==
    Stations([data |-> dat, synthetics |-> syn, sum_misfit |-> 0,
              log |-> << >>, raised |-> "", station |-> 0],
             self, 1)

\* sum_misfit**(1./p)
Root(sum_misfit, p) == [radicand |-> sum_misfit, index |-> p]

\* how the call ends: the value returned, or the exception raised
Outcome(st, self) ==
    IF st.raised = ""
    THEN [raised |-> "", station |-> 0,
          returned |-> Attr(Root(st.sum_misfit, self.order))]
    ELSE [raised |-> st.raised, station |-> st.station, returned |-> NoAttr]

----------------------------------------------------------------------------
(* The callers' objects: observed data, Green's functions, mechanisms *)

\* a trace of observed data (an ObsPy trace with the attributes cap.py reads)
DataTrace(x, delta, channel, weight) ==
    [data |-> x, delta |-> delta, channel |-> channel, weight |-> weight,
     sum_residuals |-> NoAttr]

\* a station: a stream of traces with no time_shift_mode yet
Stream(traces) == [traces |-> traces, time_shift_mode |-> NoAttr]

\* a synthetic trace as get_synthetics hands it over
SyntheticTrace(x) ==
    [data |-> x, time_shift |-> NoAttr, time_shift_group |-> NoAttr,
     start |-> NoAttr, stop |-> NoAttr]

\* greens.get_synthetics(mt): per station and trace, the Green's function
\* scaled by the mechanism (a one-parameter source)
get_synthetics(g, m) ==
    [n \in 1..Len(g) |->
        [k \in 1..Len(g[n]) |->
            SyntheticTrace(Array([j \in 1..Len(g[n][k]) |-> m * g[n][k][j]]))]]

\* the waveform w, displaced by k samples from the centre of a window that
\* is npad samples longer than w on each side, zeros elsewhere
Displace(w, k, npad) ==
    Array([j \in 1..(Len(w) + 2 * npad) |->
              IF j - npad - k >= 1 /\ j - npad - k <= Len(w)
              THEN w[j - npad - k] ELSE 0])

----------------------------------------------------------------------------
(* Bounds and input sets *)

Npts == 2

MaxStations == 2

LongExcess == 1

Wavelets == {<<1>>, <<1, -1>>}

\* w followed by zeros, n samples in all
Embed(w, n) == Array([j \in 1..n |-> IF j <= Len(w) THEN w[j] ELSE 0])

Signals(n) == {zeros(n)} \cup {Embed(w, n) : w \in {v \in Wavelets : Len(v) <= n}}

Deltas == {1, 3}

Weights == {0, 2}

Mechanisms == {0, 1, -1}

Orders == {1, 2}

PolarityWeights == {0, 1}

TimeShiftMaxima == {0, 1, 2, ModeLongLag, ModeLongLag + LongExcess}

GroupChoices ==
    { << <<"Z", "R", "T">> >>,
      << <<"Z", "R">>, <<"T">> >>,
      << <<"Z", "R">>, <<"Z">> >>,
      << <<"T">> >>,
      << <<"Z">>, <<"N">> >> }

\* the displacements tried for a padding of npad samples
Displacements(npad) == (-npad)..npad

\* Green's functions for one trace of n samples
GreensFor(n, paddings) ==
    UNION { { Displace(w, k, npad) : w \in Signals(n) \ {zeros(n)},
                                     k \in Displacements(npad) }
            : npad \in paddings }

\* stations of one trace on the vertical component
OneTraceScenes ==
    { [d |-> Stream(<< DataTrace(x, delta, <<"B", "H", "Z">>, w) >>),
       g |-> << y >>] :
         x \in Signals(Npts), delta \in Deltas, w \in Weights,
         y \in GreensFor(Npts, {0, 1, 2}) }

\* stations of one trace whose Green's function is padded for a long lag
LongLagScenes ==
    { [d |-> Stream(<< DataTrace(x, 1, <<"B", "H", "Z">>, 2) >>),
       g |-> << Displace(w, k, npad) >>] :
         x \in Signals(Npts), w \in Signals(Npts) \ {zeros(Npts)},
         k \in {-2, 0}, npad \in {ModeLongLag + LongExcess} }

\* stations of one long trace, around the length where the mode changes
LongScenes ==
    { [d |-> Stream(<< DataTrace(Embed(<<1, -1>>, n), 1, <<"B", "H", "Z">>, 2) >>),
       g |-> << Displace(Embed(<<1, -1>>, n), k, 1) >>] :
         n \in ModeLongTrace..(ModeLongTrace + LongExcess), k \in {-1} }

\* stations of two traces, vertical and radial
TwoTraceScenes ==
    { [d |-> Stream(<< DataTrace(<<1, 0>>, 1, <<"B", "H", "Z">>, w1),
                       DataTrace(x2, 1, <<"B", "H", "r">>, w2) >>),
       g |-> << Displace(<<1, 0>>, k1, npad), Displace(<<1, 0>>, k2, npad) >>] :
         w1 \in Weights, w2 \in Weights, x2 \in {<<1, 0>>},
         npad \in {0, 2}, k1 \in {0}, k2 \in {-2, 1} }

\* the stations of a multi-station data set
NetworkScenes ==
    { [d |-> Stream(<< DataTrace(<<1, 0>>, delta, <<"B", "H", "Z">>, 2) >>),
       g |-> << Displace(<<1, 1>>, 0, npad) >>] :
         delta \in Deltas, npad \in {0, 1} }

RECURSIVE SeqsUpTo(_, _)
SeqsUpTo(S, n) ==
    IF n = 0 THEN {<< >>}
    ELSE LET shorter == SeqsUpTo(S, n - 1)
         IN  shorter \cup {Append(q, e) : q \in {r \in shorter : Len(r) = n - 1}, e \in S}

----------------------------------------------------------------------------
(* Specifications *)

NoCall == [raised |-> "none", station |-> 0, returned |-> NoAttr]

InitEvaluator(scenes) ==
    /\ data = [n \in 1..Len(scenes) |-> scenes[n].d]
    /\ greens = [n \in 1..Len(scenes) |-> scenes[n].g]
    /\ misfit = NoAttr
    /\ mt = 0
    /\ synthetics = << >>
    /\ log = << >>
    /\ outcome = NoCall

InitWith(scenes) ==
    /\ InitEvaluator(scenes)
    /\ corr = NoAttr

\* function_handle = Misfit(**parameters)
Construct(norm_order, polarity_weight, time_shift_groups, time_shift_max) ==
    /\ ValidGroups(time_shift_groups)
    /\ misfit' = Attr(NewMisfit(norm_order, polarity_weight,
                               time_shift_groups, time_shift_max))
    /\ mt' = 0
    /\ synthetics' = << >>
    /\ log' = << >>
    /\ outcome' = NoCall
    /\ UNCHANGED <<data, greens, corr>>

\* function_handle(data, greens, mt)
Call(m) ==
    /\ HasAttr(misfit)
    /\ LET st == RunCall(Val(misfit), data, get_synthetics(greens, m))
       IN  /\ data' = st.data
           /\ synthetics' = st.synthetics
           /\ log' = st.log
           /\ outcome' = Outcome(st, Val(misfit))
    /\ mt' = m
    /\ UNCHANGED <<greens, misfit, corr>>

\* any data set, any configuration
Init ==
    \E scenes \in SeqsUpTo(NetworkScenes, MaxStations)
                  \cup {<<sc>> : sc \in TwoTraceScenes} :
        InitWith(scenes)

Next ==
    \/ \E o \in Orders, pw \in PolarityWeights, gs \in GroupChoices,
          tsm \in {0, 2} :
          Construct(o, pw, gs, tsm)
    \/ \E m \in {0, 1} : Call(m)

Spec == Init /\ [][Next]_vars

\* one station of one trace: the search for the lag
InitShift ==
    \E sc \in OneTraceScenes \cup LongLagScenes \cup LongScenes :
        InitWith(<<sc>>)

NextShift ==
    \/ \E o \in Orders, tsm \in TimeShiftMaxima :
          Construct(o, 0, << <<"Z", "R", "T">> >>, tsm)
    \/ \E m \in Mechanisms : Call(m)

SpecShift == InitShift /\ [][NextShift]_vars

\* the waveform w placed j samples into a window of n samples
Place(w, j, n) ==
    Array([i \in 1..n |->
              IF i - j >= 1 /\ i - j <= Len(w) THEN w[i - j] ELSE 0])

\* the arguments of correlate: a reference and a longer (or equal) array,
\* with lengths on both sides of the two thresholds
CorrelateArguments ==
    { [v1 |-> Embed(w, n1), v2 |-> Place(u, j, n1 + lag)] :
         w \in Wavelets, u \in Wavelets,
         n1 \in 1..Npts, lag \in 0..(Npts + 1), j \in 0..(Npts + 1) }
    \cup
    { [v1 |-> Embed(w, n1), v2 |-> Place(u, j, n1 + lag)] :
         w \in Wavelets, u \in Wavelets, n1 \in {1, Npts},
         lag \in CorrLongLag..(CorrLongLag + LongExcess),
         j \in {0, 1, CorrLongLag} }
    \cup
    { [v1 |-> Embed(w, n1), v2 |-> Place(u, j, n1 + lag)] :
         w \in {<<1, -1>>}, u \in Wavelets,
         n1 \in CorrLongTrace..(CorrLongTrace + LongExcess),
         lag \in 1..2, j \in {0, 1} }

InitCorrelate ==
    /\ InitEvaluator(<< >>)
    /\ \E a \in CorrelateArguments :
          corr = [v1 |-> a.v1, v2 |-> a.v2, result |-> NoAttr]

\* correlate(v1, v2)
Correlate ==
    /\ ~HasAttr(corr.result)
    /\ corr' = [corr EXCEPT !.result = Attr(correlate(corr.v1, corr.v2))]
    /\ UNCHANGED <<data, greens, misfit, mt, synthetics, log, outcome>>

NextCorrelate == Correlate

SpecCorrelate == InitCorrelate /\ [][NextCorrelate]_vars

----------------------------------------------------------------------------
(* What the claims speak of *)

Called == outcome.raised # "none"

Returned == outcome.raised = ""

Self == Val(misfit)

Stations1 == 1..Len(data)

Traces(n) == 1..Len(data[n].traces)

\* the stations the latest call took through PART 2
Logged == 1..Len(log)

GroupsOf(n) == 1..Len(log[n].groups)

Listed(i, n, g) ==
    \E k \in 1..Len(log[n].groups[g]._indices) : log[n].groups[g]._indices[k] = i

Covers(n, g, i) == In(component(data[n].traces[i]), log[n].groups[g].group)

Unannotated(s) ==
    /\ s.time_shift = NoAttr
    /\ s.time_shift_group = NoAttr
    /\ s.start = NoAttr
    /\ s.stop = NoAttr

AllEqual(x) == \A j \in 1..Len(x) : x[j] = x[1]

----------------------------------------------------------------------------
(* C1 *)

\* the data and the Green's functions with every sample of every trace of
\* weight zero raised by one
RaiseZeroWeight(d, arrays) ==
    [n \in 1..Len(d) |->
        [i \in 1..Len(d[n].traces) |->
            IF d[n].traces[i].weight = 0
            THEN Array([j \in 1..Len(arrays[n][i]) |-> arrays[n][i][j] + 1])
            ELSE arrays[n][i]]]

DataRaised ==
    LET x == RaiseZeroWeight(data, [n \in Stations1 |->
                 [i \in Traces(n) |-> data[n].traces[i].data]])
    IN  [n \in Stations1 |->
            [data[n] EXCEPT !.traces =
                [i \in Traces(n) |-> [data[n].traces[i] EXCEPT !.data = x[n][i]]]]]

GreensRaised == RaiseZeroWeight(data, greens)

\* the traces of weight zero are in no group's _indices, and the call run
\* again with their samples changed finds the same lags and the same total
ZeroWeightWithoutInfluence ==
    Called =>
      /\ \A n \in Logged : \A g \in GroupsOf(n) : \A i \in Traces(n) :
            data[n].traces[i].weight = 0 => ~Listed(i, n, g)
      /\ LET again == RunCall(Self, DataRaised, get_synthetics(GreensRaised, mt))
         IN  /\ again.log = log
             /\ Outcome(again, Self) = outcome
             /\ \A n \in Stations1 : \A i \in Traces(n) :
                   data[n].traces[i].weight # 0 =>
                     /\ again.data[n].traces[i] = data[n].traces[i]
                     /\ again.synthetics[n][i] = synthetics[n][i]

\* C1 (as amended): a record with weight = 0 influences neither the lag
\* search of its group nor the accumulated total, and it receives no
\* alignment metadata: the call leaves its time_shift, time_shift_group,
\* start and stop (and its sum_residuals) unset.
C1_ZeroWeightIgnored ==
    /\ ZeroWeightWithoutInfluence
    /\ Called =>
         \A n \in Stations1 : \A i \in Traces(n) :
            data[n].traces[i].weight = 0 =>
              /\ Unannotated(synthetics[n][i])
              /\ data[n].traces[i].sum_residuals = NoAttr

\* C1 (as claimed): a record with weight = 0 influences neither the lag
\* search nor the total, and receives the time_shift, time_shift_group,
\* start and stop chosen for the other records of its group.
C1_ZeroWeightAnnotated ==
    /\ ZeroWeightWithoutInfluence
    /\ Called =>
         \A n \in Logged : \A g \in GroupsOf(n) : \A i \in Traces(n) :
            (data[n].traces[i].weight = 0 /\ Covers(n, g, i)) =>
              /\ synthetics[n][i].time_shift = Attr(log[n].groups[g].time_shift)
              /\ synthetics[n][i].time_shift_group = Attr(log[n].groups[g].group)
              /\ synthetics[n][i].start = Attr(log[n].groups[g].start)
              /\ synthetics[n][i].stop = Attr(log[n].groups[g].stop)

\* a call has searched the lag of a group that holds a record of weight zero
\* beside a weighted one, and the record of weight zero alone would have
\* put the maximum elsewhere
C1_Witness ==
    /\ Returned
    /\ \E n \in Logged : \E g \in GroupsOf(n) : \E i \in Traces(n) :
          /\ data[n].traces[i].weight = 0
          /\ Covers(n, g, i)
          /\ log[n].groups[g]._indices # << >>
          /\ log[n].mode = 2
          /\ log[n].npts_padding > 0
          /\ ~AllEqual(log[n].groups[g].result)
          /\ argmax(np_correlate(data[n].traces[i].data, synthetics[n][i].data))
                # log[n].groups[g].argmax

----------------------------------------------------------------------------
(* C2, C3 *)

NptsDat(n) == Len(data[n].traces[1].data)

\* the length of the synthetics get_synthetics returns for station n
NptsSyn(n) == Len(greens[n][1])

NptsPadding(n) == Round(Self.time_shift_max, data[n].traces[1].delta)

LengthsFit(n) ==
    \/ NptsSyn(n) - NptsDat(n) = 2 * NptsPadding(n)
    \/ NptsSyn(n) - NptsDat(n) = 0

\* C2 (as amended): with polarity_weight > 0, a call on a collection of at
\* least one station never returns a misfit value: it is aborted at the
\* first station, with the not-implemented error once that station has
\* passed the padding validation and been processed, and with the data-shape
\* error if that station's lengths are invalid; on an empty collection the
\* call raises nothing and returns 0.
C2_PolarityFirstStation ==
    (Called /\ Self.polarity_weight > 0) =>
      /\ Len(data) = 0 =>
            /\ outcome.raised = ""
            /\ outcome.returned = Attr([radicand |-> 0, index |-> Self.order])
      /\ Len(data) > 0 =>
            /\ outcome.returned = NoAttr
            /\ outcome.station = 1
            /\ LengthsFit(1) => outcome.raised = "NotImplementedError"
            /\ ~LengthsFit(1) => outcome.raised = "Exception"

\* C2 (as claimed): with polarity_weight > 0 every call fails with the
\* not-implemented error and returns no misfit value, whatever the number
\* of stations.
C2_AlwaysNotImplemented ==
    (Called /\ Self.polarity_weight > 0) =>
      /\ outcome.raised = "NotImplementedError"
      /\ outcome.returned = NoAttr

\* a call with polarity_weight > 0 on two stations stopped with the
\* not-implemented error after it had processed the first station
C2_Witness ==
    /\ Called
    /\ Self.polarity_weight > 0
    /\ Len(data) = 2
    /\ outcome.raised = "NotImplementedError"
    /\ Len(log) = 1
    /\ HasAttr(synthetics[1][1].time_shift)

\* is station n entered by the latest call?
Entered(n) ==
    /\ \A k \in 1..(n - 1) : LengthsFit(k)
    /\ n = 1 \/ Self.polarity_weight <= 0

\* C3: at each station the call enters, the data-shape error is raised
\* exactly when npts_syn - npts_dat is neither 2*npts_padding nor 0, with
\* npts_padding = round(time_shift_max/dt); raised at any station, first or
\* later, it ends the call, which returns no misfit value.
C3_DataShapeError ==
    Called =>
      /\ \A n \in Stations1 :
            Entered(n) =>
              ((outcome.raised = "Exception" /\ outcome.station = n)
                  <=> ~LengthsFit(n))
      /\ outcome.raised = "Exception" =>
            /\ outcome.returned = NoAttr
            /\ outcome.station \in Stations1
            /\ Entered(outcome.station)

\* the data-shape error was raised at the second station, after the first
\* station had added a positive amount to the running total
C3_Witness ==
    /\ outcome.raised = "Exception"
    /\ outcome.station = 2
    /\ Len(log) = 1
    /\ \E g \in GroupsOf(1) : Listed(1, 1, g)
    /\ data[1].traces[1].weight > 0
    /\ HasAttr(data[1].traces[1].sum_residuals)
    /\ Val(data[1].traces[1].sum_residuals) > 0

----------------------------------------------------------------------------
(* C4 *)

\* C4: per station of observed data, time_shift_mode is set by the first
\* call that takes the station past the padding validation, to 0 (no shift)
\* if that call's npts_padding is 0, else to 1 (frequency domain) if
\* npts_dat > 2000 or npts_padding > 200, else to 2 (time domain); once set
\* it keeps its value, whatever the mechanisms and Misfit objects of the
\* later calls.
C4_ModeDecidedOnce ==
    [][\A n \in Stations1 :
          LET d == data[n]
              npts == Len(d.traces[1].data)
          IN  /\ HasAttr(d.time_shift_mode) =>
                    data'[n].time_shift_mode = d.time_shift_mode
              /\ (outcome' # NoCall /\ n <= Len(log')) =>
                    HasAttr(data'[n].time_shift_mode)
              /\ (~HasAttr(d.time_shift_mode) /\ HasAttr(data'[n].time_shift_mode)) =>
                    LET npts_padding ==
                            Round(Val(misfit).time_shift_max, d.traces[1].delta)
                    IN  /\ npts_padding = 0 => Val(data'[n].time_shift_mode) = 0
                        /\ (npts_padding # 0 /\ (npts > 2000 \/ npts_padding > 200)) =>
                              Val(data'[n].time_shift_mode) = 1
                        /\ (npts_padding # 0 /\ npts <= 2000 /\ npts_padding <= 200) =>
                              Val(data'[n].time_shift_mode) = 2
      ]_vars

\* a station was processed in frequency-domain mode by a call whose own
\* lengths would have chosen the time domain: the mode is the one an
\* earlier call, of another Misfit object, had set
C4_Witness ==
    /\ Returned
    /\ Len(log) = 1
    /\ log[1].mode = 1
    /\ data[1].time_shift_mode = Attr(1)
    /\ log[1].npts_padding > 0
    /\ log[1].npts_padding <= 200
    /\ log[1].npts <= 2000

----------------------------------------------------------------------------
(* C5, C10 *)

\* the index of the first nonzero sample of x (x is not all zero)
FirstNonzero(x) ==
    CHOOSE j \in 1..Len(x) : x[j] # 0 /\ \A i \in 1..(j - 1) : x[i] = 0

\* the synthetic of the only trace is the observed signal displaced by k
DisplacedBy(k) ==
    LET x == data[1].traces[1].data
        j == FirstNonzero(x)
        npad == log[1].npts_padding
    IN  /\ synthetics[1][1].data[npad + k + j] = x[j]
        /\ synthetics[1][1].data = Displace(x, k, npad)

\* the call has aligned the only trace with its synthetic
Recovered(k) ==
    LET tr == data[1].traces[1]
        s == synthetics[1][1]
    IN  /\ HasAttr(s.start)
        /\ Slice(s.data, Val(s.start), Val(s.stop)) = tr.data
        /\ tr.sum_residuals = Attr(0)
        /\ outcome.returned = Attr([radicand |-> 0, index |-> Self.order])
        /\ Abs(Val(s.time_shift)) = Abs(k) * tr.delta

\* a station of one trace in one group, of nonzero weight and not all zero,
\* taken past the padding validation by the latest call
OneRecordCase ==
    /\ Called
    /\ Len(data) = 1
    /\ Len(data[1].traces) = 1
    /\ Len(log) = 1
    /\ Len(log[1].groups) = 1
    /\ Covers(1, 1, 1)
    /\ data[1].traces[1].weight # 0
    /\ ~AllEqual(data[1].traces[1].data) \/ data[1].traces[1].data[1] # 0

\* C5 (as claimed): when the padded synthetic of a single-record group is
\* the observed signal displaced by k samples from the centre, |k| <=
\* npts_padding, the call selects the alignment whose slice equals the
\* observed data: sum_residuals = 0, the misfit returned is 0, and
\* |time_shift| = |k|*dt.
C5_ShiftRecovered ==
    OneRecordCase =>
      \A k \in (-log[1].npts_padding)..log[1].npts_padding :
          DisplacedBy(k) => Recovered(k)

\* the same with the calls left out that run in no-shift mode although
\* npts_padding > 0 (a mode another Misfit object's call had set): the shift
\* is recovered in every other case
C5_ShiftRecoveredUnlessStale ==
    (OneRecordCase /\ ~(log[1].mode = 0 /\ log[1].npts_padding > 0)) =>
      \A k \in (-log[1].npts_padding)..log[1].npts_padding :
          DisplacedBy(k) => Recovered(k)

\* C10 (as claimed): whenever a station is processed in no-shift mode, the
\* lag-correlation profile has length 1 and every annotated record of the
\* station gets time_shift = 0, start = 0 and stop = npts_dat.
C10_NoShiftZeroLag ==
    Called =>
      \A n \in Logged :
          log[n].mode = 0 =>
            \A g \in GroupsOf(n) :
              /\ Len(log[n].groups[g].result) = 1
              /\ \A i \in Traces(n) :
                    Listed(i, n, g) =>
                      /\ log[n].groups[g].time_shift = 0
                      /\ log[n].groups[g].start = 0
                      /\ log[n].groups[g].stop = NptsDat(n)
                      /\ HasAttr(synthetics[n][i].time_shift)

----------------------------------------------------------------------------
(* C6 *)

\* the Green's functions, those of the stations the latest call padded at
\* run time now padded in advance by npts_padding zeros on each side
GreensPrepadded ==
    [n \in Stations1 |->
        IF n <= Len(log) /\ log[n].padded
        THEN [i \in 1..Len(greens[n]) |->
                 Displace(greens[n][i], 0, log[n].npts_padding)]
        ELSE greens[n]]

\* C6: for the same observations, Misfit object and mechanism, the call on
\* unpadded synthetics (npts_syn == npts_dat, padded at run time) finds the
\* same lags, the same start and stop and the same misfit as the call on
\* synthetics of the same content padded in advance by npts_padding zeros
\* on each side.
C6_PaddingFallbackEquivalent ==
    (Called /\ \E n \in Logged : log[n].padded) =>
      LET again == RunCall(Self, data, get_synthetics(GreensPrepadded, mt))
      IN  /\ Len(again.log) = Len(log)
          /\ \A n \in Logged :
                /\ ~again.log[n].padded
                /\ again.log[n].npts_padding = log[n].npts_padding
                /\ again.log[n].groups = log[n].groups
          /\ Outcome(again, Self) = outcome
          /\ again.synthetics = synthetics
          /\ again.data = data

\* a call padded the synthetics at run time and found a nonzero lag and a
\* positive misfit
C6_Witness ==
    /\ Returned
    /\ Len(log) = 1
    /\ log[1].padded
    /\ log[1].mode = 2
    /\ \E g \in GroupsOf(1) :
          /\ log[1].groups[g]._indices # << >>
          /\ log[1].groups[g].time_shift # 0
          /\ ~AllEqual(log[1].groups[g].result)
    /\ Val(outcome.returned).radicand > 0

----------------------------------------------------------------------------
(* C7 *)

\* the reference v1 against the n1 samples of v2 that start a samples in
AlignedDot(v1, v2, a) ==
    SumRange([n \in 1..Len(v1) |-> v1[n] * v2[a + n]], 1, Len(v1))

----------------------------------------------------------------------------
(* C8 *)

RECURSIVE SumOver(_, _)
SumOver(S, f) ==
    IF S = {} THEN 0
    ELSE LET c == CHOOSE e \in S : TRUE
         IN  f[c] + SumOver(S \ {c}, f)

\* station n, group g, trace i: the trace has a nonzero weight and group g
\* contains its component
Contributions ==
    {c \in UNION {{<<n, g, i>> : g \in GroupsOf(n), i \in Traces(n)} : n \in Logged} :
        /\ data[c[1]].traces[c[3]].weight # 0
        /\ Covers(c[1], c[2], c[3])}

\* the residual of trace i of station n under the alignment of group g:
\* sum |syn[start + j] - dat[j]|^p * dt
ResidualUnder(n, g, i) ==
    LET dat == data[n].traces[i].data
        syn == synthetics[n][i].data
        start == log[n].groups[g].start
    IN  SumRange([j \in 1..Len(dat) |->
                    Pow(Abs(syn[start + j] - dat[j]), Self.order)],
                 1, Len(dat)) * data[n].traces[1].delta

GroupsCovering(n, i) == {g \in GroupsOf(n) : Covers(n, g, i)}

Max(S) == CHOOSE m \in S : \A e \in S : e <= m

\* C8 (as amended): a completed call returns (the sum, over all stations,
\* all time-shift groups and all records of nonzero weight whose component
\* is in the group, of weight * the record's residual under that group's
\* alignment)^(1/p): a record contributes once for every group that contains
\* its component, so twice when two groups overlap on it and not at all when
\* no group covers it; sum_residuals is computed for the records of nonzero
\* weight that some group covers (the last such group's value is kept), and
\* for no other record.
C8_ContributionPerGroup ==
    Returned =>
      /\ Len(log) = Len(data)
      /\ outcome.returned =
            Attr([radicand |->
                     SumOver(Contributions,
                             [c \in Contributions |->
                                 data[c[1]].traces[c[3]].weight
                                   * ResidualUnder(c[1], c[2], c[3])]),
                  index |-> Self.order])
      /\ \A n \in Stations1 : \A i \in Traces(n) :
            IF data[n].traces[i].weight # 0 /\ GroupsCovering(n, i) # {}
            THEN data[n].traces[i].sum_residuals =
                    Attr(ResidualUnder(n, Max(GroupsCovering(n, i)), i))
            ELSE /\ Unannotated(synthetics[n][i])
                 /\ data[n].traces[i].weight = 0 =>
                       data[n].traces[i].sum_residuals = NoAttr

\* C8 (as claimed): a completed call computes sum_residuals for every
\* record of every station and returns (the sum over all stations and all
\* records of weight * sum_residuals)^(1/p), each record counted once.
C8_EveryRecordOnce ==
    Returned =>
      /\ \A n \in Stations1 : \A i \in Traces(n) :
            HasAttr(data[n].traces[i].sum_residuals)
      /\ LET records == UNION {{<<n, i>> : i \in Traces(n)} : n \in Stations1}
         IN  outcome.returned =
                Attr([radicand |->
                         SumOver(records,
                                 [c \in records |->
                                     data[c[1]].traces[c[2]].weight
                                       * Val(data[c[1]].traces[c[2]].sum_residuals)]),
                      index |-> Self.order])

\* a completed call counted a record of positive residual in two groups
C8_Witness ==
    /\ Returned
    /\ \E n \in Logged : \E i \in Traces(n) : \E g \in GroupsOf(n) : \E h \in GroupsOf(n) :
          /\ g # h
          /\ Listed(i, n, g)
          /\ Listed(i, n, h)
          /\ ResidualUnder(n, g, i) > 0

----------------------------------------------------------------------------
(* C9 *)

\* the lag of group g of station n is the smallest index that maximizes
\* the profile the call summed
SmallestMaximizer(n, g) ==
    LET lg == log[n].groups[g]
        r == lg.result
    IN  /\ Len(r) = 2 * log[n].npts_padding + 1
        /\ lg.argmax \in 0..(Len(r) - 1)
        /\ \A j \in 1..Len(r) : r[j] <= r[lg.argmax + 1]
        /\ \A j \in 1..lg.argmax : r[j] < r[lg.argmax + 1]
        /\ lg.time_shift =
              (lg.argmax - log[n].npts_padding) * data[n].traces[1].delta

\* C9 (as amended): the lag chosen is the smallest index maximizing the
\* summed correlation profile; when all values of the profile are equal
\* (all-zero signals, a group with no contributing record) the index is 0,
\* which is the lag time_shift = -npts_padding*dt with start =
\* 2*npts_padding: zero only when npts_padding = 0.
C9_FirstMaximum ==
    Called =>
      \A n \in Logged : \A g \in GroupsOf(n) :
          /\ SmallestMaximizer(n, g)
          /\ AllEqual(log[n].groups[g].result) =>
                /\ log[n].groups[g].argmax = 0
                /\ log[n].groups[g].time_shift =
                      -(log[n].npts_padding * data[n].traces[1].delta)
                /\ log[n].groups[g].start = 2 * log[n].npts_padding

\* C9 (as claimed): the lag chosen is the smallest index maximizing the
\* profile, and when all values of the profile are equal the index is 0 and
\* time_shift = 0, for every npts_padding >= 0.
C9_TieGivesZeroLag ==
    Called =>
      \A n \in Logged : \A g \in GroupsOf(n) :
          /\ SmallestMaximizer(n, g)
          /\ AllEqual(log[n].groups[g].result) =>
                /\ log[n].groups[g].argmax = 0
                /\ log[n].groups[g].time_shift = 0

\* a call in time-domain mode summed a profile of equal values over more
\* than one lag, for a group with a contributing record
C9_Witness ==
    /\ Returned
    /\ \E n \in Logged : \E g \in GroupsOf(n) :
          /\ log[n].npts_padding > 0
          /\ log[n].mode = 2
          /\ log[n].groups[g]._indices # << >>
          /\ AllEqual(log[n].groups[g].result)
          /\ HasAttr(synthetics[n][log[n].groups[g]._indices[1]].time_shift)

\* a call found the maximum of the profile at more than one lag, the first
\* of them not at index 0
C9_TieWitness ==
    /\ Returned
    /\ \E n \in Logged : \E g \in GroupsOf(n) :
          LET lg == log[n].groups[g]
          IN  /\ lg.argmax > 0
              /\ \E j \in (lg.argmax + 2)..Len(lg.result) :
                    lg.result[j] = lg.result[lg.argmax + 1]

----------------------------------------------------------------------------
(* C11 *)

\* the number of samples of x[start:stop] for an array of len samples and
\* start >= 0: the slice stops at the end of the array
SamplesIn(len, start, stop) ==
    LET end == IF stop < len THEN stop ELSE len
    IN  IF end > start THEN end - start ELSE 0

\* C11: after a call, for every station that passed the test of the lengths
\* and every time-shift group: argmax lies in 0..2*npts_padding, start =
\* 2*npts_padding - argmax lies in 0..2*npts_padding, stop = start + npts_dat
\* is at most npts_dat + 2*npts_padding, which is the length of the (padded)
\* synthetic of every record of the group; so the aligned slice has exactly
\* npts_dat samples, and |time_shift| <= npts_padding*dt.  (The records of a
\* station have one length, that of its first record, which is the only one
\* cap.py:65-75 measures.)
C11_AlignmentBounds ==
    Called =>
      \A n \in Logged : \A g \in GroupsOf(n) :
          LET lg == log[n].groups[g]
              npts_padding == NptsPadding(n)
              npts_dat == NptsDat(n)
              dt == data[n].traces[1].delta
          IN  /\ log[n].npts_padding = npts_padding
              /\ lg.argmax \in 0..(2 * npts_padding)
              /\ lg.start = 2 * npts_padding - lg.argmax
              /\ lg.start \in 0..(2 * npts_padding)
              /\ lg.stop = lg.start + npts_dat
              /\ lg.stop <= npts_dat + 2 * npts_padding
              /\ Abs(lg.time_shift) <= npts_padding * dt
              /\ \A k \in 1..Len(lg._indices) :
                    LET syn == synthetics[n][lg._indices[k]].data
                    IN  /\ Len(syn) = npts_dat + 2 * npts_padding
                        /\ SamplesIn(Len(syn), lg.start, lg.stop) = npts_dat

\* a call that returned aligned a record at the largest lag allowed: the
\* slice starts at the first sample of the padded synthetic
C11_Witness ==
    /\ Returned
    /\ \E n \in Logged : \E g \in GroupsOf(n) :
          LET lg == log[n].groups[g]
          IN  /\ log[n].npts_padding > 0
              /\ lg._indices # << >>
              /\ lg.argmax = 2 * log[n].npts_padding
              /\ lg.start = 0
              /\ synthetics[n][lg._indices[1]].start = Attr(0)
              /\ synthetics[n][lg._indices[1]].stop = Attr(NptsDat(n))

====
